---------------------------- MODULE Spec2Model ----------------------------
(***************************************************************************)
(* The View Coordinator of the cybersecurity-statistics research assistant *)
(* (src/App.tsx) with the two LLM clients it drives (aiService,            *)
(* src/unnamed/part_000) and the detail overlay (StatDetailModal).         *)
(*                                                                         *)
(* Conventions.  A JavaScript string that the code inspects (trim) is a    *)
(* sequence of one-character strings; a fixed message is a TLA+ string.    *)
(* A nullable value is Null (<<>>) or Some(v) (<<v>>).  A TrendData row is *)
(* identified by a natural number and its fields are functions of it.      *)
(* Each handler is one action; the state updates that a continuation       *)
(* makes after an await (try body and finally block) are committed in one  *)
(* step, as React batches them into one render.  A control fires only      *)
(* where the render function of App puts it on the page.                   *)
(***************************************************************************)
EXTENDS Naturals, Sequences, FiniteSets

VARIABLES
    remoteTable,        \* the rows held by the remote store
    loadPending,        \* the startup fetchAndParseData() call has not settled
    allData, isDataLoading, dataError,
    searchQuery, aiResults, isSearching, aiError,
    summary, isSummarizing, summaryError,
    selectedTopics, selectedCompanies, selectedDates, searchTerm,
    selectedStat,
    searchCalls,        \* findRelevantStats calls awaiting the model
    summaryCalls,       \* generateSummary calls awaiting the model
    lastEvent,          \* the handler or continuation that ran last
    summarySource       \* the argument of the generateSummary call whose
                        \* result is held in summary, or Null

vars == <<remoteTable, loadPending, allData, isDataLoading, dataError,
          searchQuery, aiResults, isSearching, aiError,
          summary, isSummarizing, summaryError,
          selectedTopics, selectedCompanies, selectedDates, searchTerm,
          selectedStat, searchCalls, summaryCalls, lastEvent, summarySource>>

dataVars    == <<allData, isDataLoading, dataError, loadPending, remoteTable>>
searchVars  == <<searchQuery, aiResults, isSearching, aiError>>
summaryVars == <<summary, isSummarizing, summaryError, summarySource>>
filterVars  == <<selectedTopics, selectedCompanies, selectedDates, searchTerm>>
callVars    == <<searchCalls, summaryCalls>>

----------------------------------------------------------------------------
(* Bounds of the model *)

\* rows of an AI answer, and the rows of the corpus the answer is drawn from
MaxResults == 2
\* rows of a rendered table the user picks a detail record from
MaxRow == 2
\* calls of generateSummary pending at once when the handler is invoked
\* without regard to what is rendered
MaxPending == 1

(* Program constants *)

\* the cap on the rows put into the search prompt
SearchCap == 200
\* the cap on the rows put into the summary prompt
SummaryCap == 50

SearchErrorMessage  == "Failed to get a response from the AI. Please try again."
UnknownSearchError  == "An unknown error occurred during the AI search."
SummaryErrorMessage == "Failed to generate AI summary. The model may be temporarily unavailable."
DataErrorMessage    == "Failed to load the cybersecurity data trends. The AI assistant needs this data to function."

----------------------------------------------------------------------------
(* Values *)

Null    == <<>>
Some(v) == <<v>>

Min(a, b) == IF a < b THEN a ELSE b

Whitespace == {" "}

RECURSIVE TrimStart(_)
TrimStart(s) ==
    IF s # <<>> /\ Head(s) \in Whitespace THEN TrimStart(Tail(s)) ELSE s

RECURSIVE TrimEnd(_)
TrimEnd(s) ==
    IF s # <<>> /\ s[Len(s)] \in Whitespace
    THEN TrimEnd(SubSeq(s, 1, Len(s) - 1)) ELSE s

\* String.prototype.trim
Trim(s) == TrimEnd(TrimStart(s))

\* a nullable text (a sequence of characters) used as a condition
TruthyText(x) == x # Null /\ x[1] # <<>>

\* a nullable message used as a condition
TruthyMsg(x) == x # Null /\ x[1] # ""

\* "No data available to generate a summary."
NoDataSummaryText ==
    <<"N","o"," ","d","a","t","a"," ","a","v","a","i","l","a","b","l","e"," ",
      "t","o"," ","g","e","n","e","r","a","t","e"," ","a"," ",
      "s","u","m","m","a","r","y",".">>

----------------------------------------------------------------------------
(* TrendData and AIResult *)

\* the fields of row r (an empty field is an absent value)
Topic(r)        == IF r % 3 = 1 THEN <<"P", "h">> ELSE IF r % 3 = 0 THEN <<"R">> ELSE <<>>
Company(r)      == IF r % 2 = 1 THEN <<"A">> ELSE IF r % 6 = 0 THEN <<"B">> ELSE <<>>
Date(r)         == IF r % 2 = 1 THEN <<"1">> ELSE IF r % 4 = 0 THEN <<"2">> ELSE <<>>
Technology(r)   == IF r % 2 = 0 THEN <<"E">> ELSE <<>>
Stat(r)         == IF r % 2 = 1 THEN <<"p", "h">> ELSE <<"r">>
ResourceName(r) == <<"T">>

NoReason == <<>>
Reasons  == {<<"w">>}

\* a TrendData row handed to the detail overlay (reason?: absent)
AsStat(r) == [rec |-> r, reason |-> NoReason]

\* the rows the remote store may hold
SmallTables == {<<>>, <<1, 2, 3>>}
LargeTable  == [i \in 1..(SearchCap + 1) |-> i]
\* a dataset of exactly as many rows as a search sends
CapTable    == [i \in 1..SearchCap |-> i]

Queries     == {<<>>, <<" ">>, <<"q">>}
FilterTerms == {<<>>, <<"P">>}

\* tables and terms for the Filter Engine taken alone
FilterTables == {<<>>, <<1, 2, 3, 4, 5, 6>>, <<6, 3, 4, 1>>}
RichTerms    == {<<>>, <<"P">>, <<"e">>, <<"b">>, <<"x">>, <<"p", "H">>}
Keys        == {"Escape", "Enter"}

----------------------------------------------------------------------------
(* Filter Engine: filterOptions and filteredData *)

Range(s) == {s[i] : i \in 1..Len(s)}

SetInOrder_NoDedup(values) == SelectSeq(values, LAMBDA v : v # <<>>)

\* a Set filled by `if (v) set.add(v)` over values and read by Array.from:
\* the first occurrences of the non-empty values, in their order
SetInOrder(values) ==
    LET first(i) == values[i] # <<>> /\ \A j \in 1..(i - 1) : values[j] # values[i]
        kept     == SelectSeq([i \in 1..Len(values) |-> i], first)
    IN  [k \in 1..Len(kept) |-> values[kept[k]]]

\* the UTF-16 code unit of a character of a facet value
CharCode(c) ==
    CASE c = "1" -> 49 [] c = "2" -> 50 [] c = "A" -> 65 [] c = "B" -> 66
      [] c = "P" -> 80 [] c = "R" -> 82 [] c = "h" -> 104 [] OTHER -> 0

\* the order of Array.prototype.sort() without a comparator
LexBefore(a, b) ==
    \E i \in 1..Len(b) :
        /\ \A k \in 1..(i - 1) : k <= Len(a) /\ a[k] = b[k]
        /\ i - 1 <= Len(a)
        /\ i > Len(a) \/ CharCode(a[i]) < CharCode(b[i])

\* new Date(d).getTime() of a Date value of the rows: "2" is the later day
DateTime(d) == IF d = <<"2">> THEN 2 ELSE 1

\* the comparator (a, b) => new Date(b).getTime() - new Date(a).getTime()
LaterFirst(a, b) == DateTime(b) - DateTime(a) < 0

\* Array.prototype.sort, which is stable; before holds the pairs <<a, b>>
\* of elements for which the comparator puts a in front of b
SortBy(s, before) ==
    LET pos(k) == 1 + Cardinality({j \in 1..Len(s) :
                        \/ <<s[j], s[k]>> \in before
                        \/ <<s[k], s[j]>> \notin before /\ j < k})
    IN  [i \in 1..Len(s) |-> s[CHOOSE k \in 1..Len(s) : pos(k) = i]]

\* Array.from(set).sort()
SortTexts(s) == SortBy(s, {p \in Range(s) \X Range(s) : LexBefore(p[1], p[2])})

\* Array.from(dates).sort((a, b) => ...)
SortDates(s) == SortBy(s, {p \in Range(s) \X Range(s) : LaterFirst(p[1], p[2])})

\* the options of the three facets
topicOptions ==
    SortTexts(SetInOrder([i \in 1..Len(allData) |-> Topic(allData[i])]))
companyOptions ==
    SortTexts(SetInOrder([i \in 1..Len(allData) |-> Company(allData[i])]))
dateOptions ==
    SortDates(SetInOrder([i \in 1..Len(allData) |-> Date(allData[i])]))

filterOptions ==
    [topics |-> topicOptions, companies |-> companyOptions, dates |-> dateOptions]

ToLowerChar(c) ==
    CASE c = "P" -> "p" [] c = "R" -> "r" [] c = "A" -> "a" [] c = "B" -> "b"
      [] c = "E" -> "e" [] c = "T" -> "t" [] c = "H" -> "h" [] OTHER -> c

\* String.prototype.toLowerCase
ToLowerCase(s) == [i \in 1..Len(s) |-> ToLowerChar(s[i])]

\* String.prototype.includes
Includes(s, t) ==
    \E i \in 0..Len(s) : i + Len(t) <= Len(s) /\ SubSeq(s, i + 1, i + Len(t)) = t

\* Array.prototype.includes
Contains(arr, v) == \E i \in 1..Len(arr) : arr[i] = v

ItemMatches_NoTechnology(item, topics, companies, dates, term) ==
    LET topicMatch   == topics = <<>> \/ Contains(topics, Topic(item))
        companyMatch == companies = <<>> \/ Contains(companies, Company(item))
        dateMatch    == dates = <<>> \/ Contains(dates, Date(item))
        searchLower  == ToLowerCase(term)
        termMatch    == \/ term = <<>>
                        \/ Includes(ToLowerCase(Stat(item)), searchLower)
                        \/ Includes(ToLowerCase(ResourceName(item)), searchLower)
                        \/ Includes(ToLowerCase(Company(item)), searchLower)
                        \/ Includes(ToLowerCase(Topic(item)), searchLower)
    IN  topicMatch /\ companyMatch /\ dateMatch /\ termMatch

\* the predicate of filteredData for one row
ItemMatches(item, topics, companies, dates, term) ==
    LET topicMatch   == topics = <<>> \/ Contains(topics, Topic(item))
        companyMatch == companies = <<>> \/ Contains(companies, Company(item))
        dateMatch    == dates = <<>> \/ Contains(dates, Date(item))
        searchLower  == ToLowerCase(term)
        termMatch    == \/ term = <<>>
                        \/ Includes(ToLowerCase(Stat(item)), searchLower)
                        \/ Includes(ToLowerCase(ResourceName(item)), searchLower)
                        \/ Includes(ToLowerCase(Company(item)), searchLower)
                        \/ Includes(ToLowerCase(Topic(item)), searchLower)
                        \/ Includes(ToLowerCase(Technology(item)), searchLower)
    IN  topicMatch /\ companyMatch /\ dateMatch /\ termMatch

\* allData.filter(...) over the given selections
ApplyFilters(rows, topics, companies, dates, term) ==
    SelectSeq(rows, LAMBDA item : ItemMatches(item, topics, companies, dates, term))

filteredData ==
    ApplyFilters(allData, selectedTopics, selectedCompanies, selectedDates, searchTerm)

----------------------------------------------------------------------------
(* aiService: findRelevantStats and generateSummary *)

Reverse(s)  == [i \in 1..Len(s) |-> s[Len(s) + 1 - i]]
SwapEnds(s) == [i \in 1..Len(s) |->
                   IF i = 1 THEN s[Len(s)] ELSE IF i = Len(s) THEN s[1] ELSE s[i]]

\* data.sort(() => 0.5 - Math.random()): the array is reordered in place into
\* some permutation of itself; four permutations, closed under composition
SortOutcomes(data) ==
    {data, Reverse(data), SwapEnds(data), Reverse(SwapEnds(data))}

\* the orders the caller's array may be left in by building dataSubset
ArrayAfterSubset(data) ==
    IF Len(data) > SearchCap THEN SortOutcomes(data) ELSE {data}

DataSubset_Uncapped(sorted) == sorted

\* dataSubset, given the order the array was left in
DataSubset(sorted) ==
    IF Len(sorted) > SearchCap THEN SubSeq(sorted, 1, SearchCap) ELSE sorted

AIResult(r) == [rec |-> r, reason |-> CHOOSE w \in Reasons : TRUE]

\* the arrays an answer of the model may hold: runs of the first rows sent
ResultLists(sent) ==
    LET k     == Min(MaxResults, Len(sent))
        cands == [i \in 1..k |-> AIResult(sent[i])]
    IN  {<<>>} \cup {SubSeq(cands, i, j) : i \in 1..k, j \in 1..k}

Parsed(kind, items) == [kind |-> kind, items |-> items]

\* what ai.models.generateContent may do for a search prompt: reject, or
\* resolve to a response whose text is undefined, blank, not JSON, a JSON
\* object, or a JSON array (parsed is what JSON.parse makes of the text)
SearchResponses(sent) ==
    {[ok |-> FALSE, hasText |-> FALSE, text |-> <<>>, parsed |-> Parsed("throws", <<>>)],
     [ok |-> TRUE,  hasText |-> FALSE, text |-> <<>>, parsed |-> Parsed("throws", <<>>)],
     [ok |-> TRUE,  hasText |-> TRUE,  text |-> <<" ">>, parsed |-> Parsed("throws", <<>>)],
     [ok |-> TRUE,  hasText |-> TRUE,  text |-> <<"[">>, parsed |-> Parsed("throws", <<>>)],
     [ok |-> TRUE,  hasText |-> TRUE,  text |-> <<"{", "}">>, parsed |-> Parsed("object", <<>>)]}
    \cup {[ok |-> TRUE, hasText |-> TRUE, text |-> <<" ", "[", "]">>,
           parsed |-> Parsed("array", items)] : items \in ResultLists(sent)}

Resolved(v)   == [ok |-> TRUE,  value |-> v,    message |-> ""]
Rejected(msg) == [ok |-> FALSE, value |-> <<>>, message |-> msg]

\* the try/catch of findRelevantStats applied to one response
FindRelevantStatsResult(resp) ==
    IF ~resp.ok \/ ~resp.hasText THEN Rejected(SearchErrorMessage)
    ELSE IF Trim(resp.text) = <<>> THEN Resolved(<<>>)
    ELSE IF resp.parsed.kind = "throws" THEN Rejected(SearchErrorMessage)
    ELSE IF resp.parsed.kind # "array" THEN Resolved(<<>>)
    ELSE Resolved(resp.parsed.items)

StripReason_Identity(row) == row

\* JSON.stringify with the replacer that drops the reason key
StripReason(row) == [rec |-> row.rec]

\* the rows serialised into the summary prompt
SummaryPayload(data) ==
    LET dataSubset == IF Len(data) > SummaryCap THEN SubSeq(data, 1, SummaryCap) ELSE data
    IN  [i \in 1..Len(dataSubset) |-> StripReason(dataSubset[i])]

\* what ai.models.generateContent may do for a summary prompt
SummaryResponses ==
    {[ok |-> FALSE, hasText |-> FALSE, text |-> <<>>],
     [ok |-> TRUE,  hasText |-> FALSE, text |-> <<>>],
     [ok |-> TRUE,  hasText |-> TRUE,  text |-> <<" ">>],
     [ok |-> TRUE,  hasText |-> TRUE,  text |-> <<" ", "s", " ">>]}

\* the try/catch of generateSummary applied to one response
GenerateSummaryResult(resp) ==
    IF ~resp.ok \/ ~resp.hasText THEN Rejected(SummaryErrorMessage)
    ELSE Resolved(Trim(resp.text))

\* a pending call of findRelevantStats; stale records that the search it
\* belongs to was cleared or replaced since
SearchCall(query, sent) == [query |-> query, sent |-> sent, stale |-> FALSE]

\* generateSummary applied to data, resp being what the model does if it is
\* contacted
GenerateSummary(data, resp) ==
    IF Len(data) = 0
    THEN [contacted |-> FALSE, result |-> Resolved(NoDataSummaryText)]
    ELSE [contacted |-> TRUE,  result |-> GenerateSummaryResult(resp)]

\* a pending call of generateSummary; contacts tells whether it reaches
\* ai.models.generateContent
SummaryCall(data) ==
    [input |-> data, payload |-> SummaryPayload(data), contacts |-> Len(data) # 0,
     stale |-> FALSE]

MarkStale(calls) == [i \in 1..Len(calls) |-> [calls[i] EXCEPT !.stale = TRUE]]

RemoveAt_Keeps(s, i) == s

RemoveAt(s, i) == SubSeq(s, 1, i - 1) \o SubSeq(s, i + 1, Len(s))

Ev(op) == [op |-> op, stale |-> FALSE]

----------------------------------------------------------------------------
(* App: what the render function puts on the page *)

MainRendered_IgnoresDataError == ~isDataLoading

\* neither the loading screen nor the blocking data error is returned
MainRendered == ~isDataLoading /\ ~TruthyMsg(dataError)

showAiResults == Len(aiResults) > 0 \/ isSearching \/ TruthyMsg(aiError)

SearchingRendered == MainRendered /\ isSearching
AiErrorRendered   == MainRendered /\ TruthyMsg(aiError)
AiResultsRendered == MainRendered /\ Len(aiResults) > 0 /\ ~isSearching
BrowseRendered    == MainRendered /\ ~showAiResults

\* the "Generate Executive Analysis" button
SummaryButtonRendered ==
    /\ MainRendered
    /\ ~TruthyText(summary) /\ ~isSummarizing /\ ~TruthyMsg(summaryError)
    /\ Len(aiResults) > 0

\* the dismiss buttons of the summary panel and of the summary error panel
DismissRendered ==
    /\ MainRendered
    /\ TruthyMsg(summaryError) \/ (TruthyText(summary) /\ ~isSummarizing)

\* "Back to database view" and "Clear AI Results"
ClearSearchRendered == AiErrorRendered \/ AiResultsRendered

ModalRendered == MainRendered /\ selectedStat # Null

\* the active view of the coordinator, read off the render function
ActiveView ==
    IF isDataLoading THEN "Loading"
    ELSE IF TruthyMsg(dataError) THEN "DataError"
    ELSE IF isSearching THEN "AISearching"
    ELSE IF TruthyMsg(aiError) THEN "AIError"
    ELSE IF Len(aiResults) > 0 THEN "AIResults"
    ELSE "Browse"

\* the rows a click can hand to handleStatSelect
SelectableStats ==
    (IF BrowseRendered
     THEN {AsStat(filteredData[i]) : i \in 1..Min(MaxRow, Len(filteredData))}
     ELSE {})
    \cup
    (IF AiResultsRendered
     THEN {aiResults[i] : i \in 1..Min(MaxRow, Len(aiResults))}
     ELSE {})

----------------------------------------------------------------------------
(* App: the startup load *)

InitWith(tables) ==
    /\ remoteTable \in tables
    /\ loadPending = TRUE
    /\ allData = <<>>
    /\ isDataLoading = TRUE
    /\ dataError = Null
    /\ searchQuery = <<>>
    /\ aiResults = <<>>
    /\ isSearching = FALSE
    /\ aiError = Null
    /\ summary = Null
    /\ isSummarizing = FALSE
    /\ summaryError = Null
    /\ selectedTopics = <<>>
    /\ selectedCompanies = <<>>
    /\ selectedDates = <<>>
    /\ searchTerm = <<>>
    /\ selectedStat = Null
    /\ searchCalls = <<>>
    /\ summaryCalls = <<>>
    /\ lastEvent = Ev("mount")
    /\ summarySource = Null

\* loadData: fetchAndParseData() resolved
LoadSucceeds ==
    /\ loadPending
    /\ loadPending' = FALSE
    /\ allData' = remoteTable
    /\ dataError' = Null
    /\ isDataLoading' = FALSE
    /\ lastEvent' = Ev("load_ok")
    /\ UNCHANGED <<remoteTable, searchVars, summaryVars, filterVars, selectedStat, callVars>>

LoadFails_KeepsLoading ==
    /\ loadPending
    /\ loadPending' = FALSE
    /\ dataError' = Some(DataErrorMessage)
    /\ UNCHANGED isDataLoading
    /\ lastEvent' = Ev("load_failed")
    /\ UNCHANGED <<remoteTable, allData, searchVars, summaryVars, filterVars,
                   selectedStat, callVars>>

LoadFails_Swallows ==
    /\ loadPending
    /\ loadPending' = FALSE
    /\ dataError' = Null
    /\ isDataLoading' = FALSE
    /\ lastEvent' = Ev("load_failed")
    /\ UNCHANGED <<remoteTable, allData, searchVars, summaryVars, filterVars,
                   selectedStat, callVars>>

\* loadData: fetchAndParseData() rejected
LoadFails ==
    /\ loadPending
    /\ loadPending' = FALSE
    /\ dataError' = Some(DataErrorMessage)
    /\ isDataLoading' = FALSE
    /\ lastEvent' = Ev("load_failed")
    /\ UNCHANGED <<remoteTable, allData, searchVars, summaryVars, filterVars,
                   selectedStat, callVars>>

----------------------------------------------------------------------------
(* App: AI search *)

handleClearSummary_KeepsError ==
    /\ summary' = Null
    /\ UNCHANGED summaryError
    /\ summarySource' = Null

handleClearSummary ==
    /\ summary' = Null
    /\ summaryError' = Null
    /\ summarySource' = Null

\* the textarea's onChange
SetSearchQuery(q) ==
    /\ MainRendered
    /\ q # searchQuery
    /\ searchQuery' = q
    /\ lastEvent' = Ev("set_query")
    /\ UNCHANGED <<dataVars, aiResults, isSearching, aiError, summaryVars, filterVars,
                   selectedStat, callVars>>

SearchRejected_NoInFlightCheck == Trim(searchQuery) = <<>>

SearchRejected_NoTrim == searchQuery = <<>> \/ isSearching

\* the early return of handleAiSearch (the button's disabled condition)
SearchRejected == Trim(searchQuery) = <<>> \/ isSearching

BeginSearch_KeepsError ==
    /\ isSearching' = TRUE
    /\ UNCHANGED aiError
    /\ aiResults' = <<>>
    /\ selectedStat' = Null
    /\ handleClearSummary

BeginSearch_KeepsResults ==
    /\ isSearching' = TRUE
    /\ aiError' = Null
    /\ UNCHANGED aiResults
    /\ selectedStat' = Null
    /\ handleClearSummary

\* the state updates of handleAiSearch before the call
BeginSearch ==
    /\ isSearching' = TRUE
    /\ aiError' = Null
    /\ aiResults' = <<>>
    /\ selectedStat' = Null
    /\ handleClearSummary

handleAiSearch ==
    /\ MainRendered
    /\ IF SearchRejected
       THEN /\ lastEvent' = Ev("search_ignored")
            /\ UNCHANGED <<dataVars, searchVars, summaryVars, filterVars,
                           selectedStat, callVars>>
       ELSE /\ BeginSearch
            /\ \E sorted \in ArrayAfterSubset(allData) :
                 /\ allData' = sorted
                 /\ searchCalls' =
                      Append(searchCalls, SearchCall(searchQuery, DataSubset(sorted)))
            /\ summaryCalls' = MarkStale(summaryCalls)
            /\ lastEvent' = Ev("search_submitted")
            /\ UNCHANGED <<remoteTable, loadPending, isDataLoading, dataError,
                           searchQuery, isSummarizing, filterVars>>

\* the continuation of handleAiSearch after the await
SearchSettles ==
    \E i \in 1..Len(searchCalls) : \E resp \in SearchResponses(searchCalls[i].sent) :
      LET result == FindRelevantStatsResult(resp) IN
        /\ searchCalls' = RemoveAt(searchCalls, i)
        /\ IF result.ok
           THEN /\ aiResults' = result.value
                /\ UNCHANGED aiError
                /\ lastEvent' = [op |-> "search_ok", stale |-> searchCalls[i].stale]
           ELSE /\ aiError' = Some(IF result.message # "" THEN result.message
                                   ELSE UnknownSearchError)
                /\ UNCHANGED aiResults
                /\ lastEvent' = [op |-> "search_failed", stale |-> searchCalls[i].stale]
        /\ isSearching' = FALSE
        /\ UNCHANGED <<dataVars, searchQuery, summaryVars, filterVars, selectedStat,
                       summaryCalls>>

ClearSearchState_KeepsQuery ==
    /\ aiResults' = <<>>
    /\ aiError' = Null
    /\ UNCHANGED searchQuery
    /\ handleClearSummary
    /\ UNCHANGED selectedStat

ClearSearchState_ClosesDetail ==
    /\ aiResults' = <<>>
    /\ aiError' = Null
    /\ searchQuery' = <<>>
    /\ handleClearSummary
    /\ selectedStat' = Null

\* the state updates of handleClearAiSearch
ClearSearchState ==
    /\ aiResults' = <<>>
    /\ aiError' = Null
    /\ searchQuery' = <<>>
    /\ handleClearSummary
    /\ UNCHANGED selectedStat

handleClearAiSearch_ResetsFilters ==
    /\ ClearSearchRendered
    /\ ClearSearchState
    /\ searchCalls' = MarkStale(searchCalls)
    /\ summaryCalls' = MarkStale(summaryCalls)
    /\ lastEvent' = Ev("clear_search")
    /\ selectedTopics' = <<>> /\ selectedCompanies' = <<>> /\ selectedDates' = <<>>
    /\ searchTerm' = <<>>
    /\ UNCHANGED <<dataVars, isSearching, isSummarizing>>

handleClearAiSearch ==
    /\ ClearSearchRendered
    /\ ClearSearchState
    /\ searchCalls' = MarkStale(searchCalls)
    /\ summaryCalls' = MarkStale(summaryCalls)
    /\ lastEvent' = Ev("clear_search")
    /\ UNCHANGED <<dataVars, isSearching, isSummarizing, filterVars>>

----------------------------------------------------------------------------
(* App: AI summary *)

\* a click on a dismiss button of the summary section
DismissSummary ==
    /\ DismissRendered
    /\ handleClearSummary
    /\ lastEvent' = Ev("dismiss_summary")
    /\ UNCHANGED <<dataVars, searchVars, isSummarizing, filterVars, selectedStat, callVars>>

SummaryRejected_Never == FALSE

\* the early return of handleGenerateSummary
SummaryRejected == Len(aiResults) = 0

\* the body of handleGenerateSummary up to its await
GenerateSummaryBody ==
    /\ IF SummaryRejected
       THEN /\ lastEvent' = Ev("summary_ignored")
            /\ UNCHANGED <<summaryVars, summaryCalls>>
       ELSE /\ isSummarizing' = TRUE
            /\ summary' = Null
            /\ summaryError' = Null
            /\ summarySource' = Null
            /\ summaryCalls' = Append(summaryCalls, SummaryCall(aiResults))
            /\ lastEvent' = Ev("summary_requested")
    /\ UNCHANGED <<dataVars, searchVars, filterVars, selectedStat, searchCalls>>

\* a click on the "Generate Executive Analysis" button
handleGenerateSummary == SummaryButtonRendered /\ GenerateSummaryBody

\* handleGenerateSummary called whatever the page shows
GenerateSummaryInvoked == Len(summaryCalls) < MaxPending /\ GenerateSummaryBody

\* the continuation of handleGenerateSummary after the await
SummarySettles ==
    \E i \in 1..Len(summaryCalls) : \E resp \in SummaryResponses :
      LET result == GenerateSummary(summaryCalls[i].input, resp).result IN
        /\ summaryCalls' = RemoveAt(summaryCalls, i)
        /\ IF result.ok
           THEN /\ summary' = Some(result.value)
                /\ summarySource' = Some(summaryCalls[i].input)
                /\ UNCHANGED summaryError
                /\ lastEvent' = [op |-> "summary_ok", stale |-> summaryCalls[i].stale]
           ELSE /\ summaryError' = Some(result.message)
                /\ UNCHANGED <<summary, summarySource>>
                /\ lastEvent' = [op |-> "summary_failed", stale |-> summaryCalls[i].stale]
        /\ isSummarizing' = FALSE
        /\ UNCHANGED <<dataVars, searchVars, filterVars, selectedStat, searchCalls>>

----------------------------------------------------------------------------
(* App and StatDetailModal: the detail overlay *)

handleStatSelect(stat) ==
    /\ selectedStat' = Some(stat)
    /\ lastEvent' = Ev("stat_select")
    /\ UNCHANGED <<dataVars, searchVars, summaryVars, filterVars, callVars>>

handleCloseModal_ClearsResults ==
    /\ ModalRendered
    /\ selectedStat' = Null
    /\ aiResults' = <<>>
    /\ lastEvent' = Ev("close_modal")
    /\ UNCHANGED <<dataVars, searchQuery, isSearching, aiError, summaryVars, filterVars,
                   callVars>>

\* onClose from the close button or from a click on the backdrop
handleCloseModal ==
    /\ ModalRendered
    /\ selectedStat' = Null
    /\ lastEvent' = Ev("close_modal")
    /\ UNCHANGED <<dataVars, searchVars, summaryVars, filterVars, callVars>>

\* the keydown listener the overlay installs on window
handleEsc(key) ==
    /\ ModalRendered
    /\ IF key = "Escape"
       THEN selectedStat' = Null /\ lastEvent' = Ev("escape")
       ELSE UNCHANGED selectedStat /\ lastEvent' = Ev("key_ignored")
    /\ UNCHANGED <<dataVars, searchVars, summaryVars, filterVars, callVars>>

----------------------------------------------------------------------------
(* App: the client-side filters *)

\* prev.includes(v) ? prev.filter(x => x !== v) : [...prev, v]
Toggle(prev, v) ==
    IF Contains(prev, v) THEN SelectSeq(prev, LAMBDA x : x # v) ELSE Append(prev, v)

handleTopicToggle(topic) ==
    /\ MainRendered
    /\ selectedTopics' = Toggle(selectedTopics, topic)
    /\ lastEvent' = Ev("toggle_topic")
    /\ UNCHANGED <<dataVars, searchVars, summaryVars, selectedCompanies, selectedDates,
                   searchTerm, selectedStat, callVars>>

handleCompanyToggle(company) ==
    /\ MainRendered
    /\ selectedCompanies' = Toggle(selectedCompanies, company)
    /\ lastEvent' = Ev("toggle_company")
    /\ UNCHANGED <<dataVars, searchVars, summaryVars, selectedTopics, selectedDates,
                   searchTerm, selectedStat, callVars>>

handleDateToggle(date) ==
    /\ MainRendered
    /\ selectedDates' = Toggle(selectedDates, date)
    /\ lastEvent' = Ev("toggle_date")
    /\ UNCHANGED <<dataVars, searchVars, summaryVars, selectedTopics, selectedCompanies,
                   searchTerm, selectedStat, callVars>>

handleResetFilters ==
    /\ MainRendered
    /\ selectedTopics' = <<>>
    /\ selectedCompanies' = <<>>
    /\ selectedDates' = <<>>
    /\ searchTerm' = <<>>
    /\ handleClearSummary
    /\ lastEvent' = Ev("reset_filters")
    /\ UNCHANGED <<dataVars, searchVars, isSummarizing, selectedStat, callVars>>

\* the onChange of the keyword input of the Browse view
SetSearchTerm(term) ==
    /\ BrowseRendered
    /\ term # searchTerm
    /\ searchTerm' = term
    /\ lastEvent' = Ev("set_term")
    /\ UNCHANGED <<dataVars, searchVars, summaryVars, selectedTopics, selectedCompanies,
                   selectedDates, selectedStat, callVars>>

----------------------------------------------------------------------------

Next ==
    \/ LoadSucceeds
    \/ LoadFails
    \/ \E q \in Queries : SetSearchQuery(q)
    \/ handleAiSearch
    \/ SearchSettles
    \/ handleClearAiSearch
    \/ DismissSummary
    \/ handleGenerateSummary
    \/ SummarySettles
    \/ \E stat \in SelectableStats : handleStatSelect(stat)
    \/ handleCloseModal
    \/ \E key \in Keys : handleEsc(key)
    \/ \E topic \in Range(topicOptions) : handleTopicToggle(topic)
    \/ \E company \in Range(companyOptions) : handleCompanyToggle(company)
    \/ \E date \in Range(dateOptions) : handleDateToggle(date)
    \/ handleResetFilters
    \/ \E term \in FilterTerms : SetSearchTerm(term)

Init == InitWith(SmallTables)

Spec == Init /\ [][Next]_vars

\* the load and the AI search alone, over a table larger than the search cap
InitLarge == InitWith({CapTable, LargeTable})

NextSearch ==
    \/ LoadSucceeds
    \/ LoadFails
    \/ \E q \in Queries : SetSearchQuery(q)
    \/ handleAiSearch
    \/ SearchSettles
    \/ handleClearAiSearch

SpecLarge == InitLarge /\ [][NextSearch]_vars

\* answers of the model around the number of rows a summary sends
SummarySizes  == {1, SummaryCap - 1, SummaryCap, SummaryCap + 1}
LongAnswer(n) == [i \in 1..n |-> AIResult(LargeTable[i])]

\* the AI summary alone, from the AIResults view of a search that settled
InitSummary ==
    /\ remoteTable = LargeTable
    /\ loadPending = FALSE
    /\ allData = LargeTable
    /\ isDataLoading = FALSE
    /\ dataError = Null
    /\ searchQuery = <<"q">>
    /\ aiResults \in {LongAnswer(n) : n \in SummarySizes}
    /\ isSearching = FALSE
    /\ aiError = Null
    /\ summary = Null
    /\ isSummarizing = FALSE
    /\ summaryError = Null
    /\ selectedTopics = <<>>
    /\ selectedCompanies = <<>>
    /\ selectedDates = <<>>
    /\ searchTerm = <<>>
    /\ selectedStat = Null
    /\ searchCalls = <<>>
    /\ summaryCalls = <<>>
    /\ lastEvent = Ev("search_ok")
    /\ summarySource = Null

NextSummary ==
    \/ \E q \in Queries : SetSearchQuery(q)
    \/ GenerateSummaryInvoked
    \/ SummarySettles
    \/ DismissSummary
    \/ handleClearAiSearch

SpecSummary == InitSummary /\ [][NextSummary]_vars

\* the three asynchronous operations, every issued call settling in the end
NextLive ==
    \/ LoadSucceeds
    \/ LoadFails
    \/ \E q \in Queries : SetSearchQuery(q)
    \/ handleAiSearch
    \/ SearchSettles
    \/ handleClearAiSearch
    \/ DismissSummary
    \/ handleGenerateSummary
    \/ SummarySettles

SpecLive ==
    /\ Init /\ [][NextLive]_vars
    /\ WF_vars(LoadSucceeds \/ LoadFails)
    /\ WF_vars(SearchSettles)
    /\ WF_vars(SummarySettles)

\* the load and the client-side filters alone, over tables with more facets
InitFilter == InitWith(FilterTables)

NextFilter ==
    \/ LoadSucceeds
    \/ LoadFails
    \/ \E topic \in Range(topicOptions) : handleTopicToggle(topic)
    \/ \E company \in Range(companyOptions) : handleCompanyToggle(company)
    \/ \E date \in Range(dateOptions) : handleDateToggle(date)
    \/ handleResetFilters
    \/ \E term \in RichTerms : SetSearchTerm(term)

SpecFilter == InitFilter /\ [][NextFilter]_vars

----------------------------------------------------------------------------
(* Properties of the coordinator *)

\* C1: each asynchronous operation is in one of idle, loading, succeeded,
\* failed: for the search, isSearching, a non-null aiError and a non-empty
\* aiResults exclude each other; for the summary, isSummarizing, a non-null
\* summary and a non-null summaryError exclude each other; for the load,
\* isDataLoading and a non-null dataError exclude each other.
C1_OperationStatesExclusive ==
    /\ ~(isSearching /\ aiError # Null)
    /\ ~(isSearching /\ aiResults # <<>>)
    /\ ~(aiError # Null /\ aiResults # <<>>)
    /\ ~(isSummarizing /\ summary # Null)
    /\ ~(isSummarizing /\ summaryError # Null)
    /\ ~(summary # Null /\ summaryError # Null)
    /\ ~(isDataLoading /\ dataError # Null)

\* the search has succeeded with rows and the summary call has failed
C1_Witness ==
    /\ lastEvent.op = "summary_failed"
    /\ aiResults # <<>> /\ ~isSearching /\ aiError = Null
    /\ summaryError # Null /\ ~isSummarizing /\ summary = Null

\* C2: a search that succeeds with zero results shows the AIResults view
\* with an empty result set, and not the Browse view.
C2_ZeroResultsIsAiResults ==
    (lastEvent.op = "search_ok" /\ aiResults = <<>>)
        => (ActiveView = "AIResults" /\ ~BrowseRendered)

\* C3: a response that arrives after its search was cleared or replaced
\* changes none of aiResults, aiError, summary, summaryError.
C3_StaleResponseIgnored ==
    [][((SearchSettles \/ SummarySettles) /\ lastEvent'.stale)
         => UNCHANGED <<aiResults, aiError, summary, summaryError>>]_vars

\* C4: once loaded, the dataset keeps its contents and the order of its rows.
C4_DatasetImmutable ==
    [][~isDataLoading => allData' = allData]_vars

\* C5: the summary sub-state differs from NoSummary only in the AIResults
\* view with a non-empty result list.
C5_SummaryOnlyInAiResults ==
    (isSummarizing \/ summary # Null \/ summaryError # Null)
        => (ActiveView = "AIResults" /\ Len(aiResults) > 0)

\* C6: right after the AI search is cleared or a new search is submitted,
\* isSummarizing is false, summary is null and summaryError is null.
C6_ClearResetsSummary ==
    lastEvent.op \in {"clear_search", "search_submitted"}
        => (~isSummarizing /\ summary = Null /\ summaryError = Null)

\* C7: at most one search call and at most one summarize call are in
\* flight; a submission made while a search is pending changes nothing and
\* starts no call.
C7_OneCallInFlight ==
    /\ [](Len(searchCalls) <= 1 /\ Len(summaryCalls) <= 1)
    /\ [][(handleAiSearch /\ Len(searchCalls) > 0)
            => UNCHANGED <<dataVars, searchVars, summaryVars, selectedStat, callVars>>]_vars

\* a non-blank query was submitted while a search call was pending
C7_Witness ==
    /\ lastEvent.op = "search_ignored"
    /\ Trim(searchQuery) # <<>>
    /\ Len(searchCalls) = 1

\* C8: from Browse, submitting a blank query leaves the view in Browse,
\* starts no call, and leaves the search state, the summary state and the
\* open detail record as they were.
C8_BlankSubmitIgnored ==
    [][(handleAiSearch /\ Trim(searchQuery) = <<>> /\ ActiveView = "Browse")
         => /\ ActiveView' = "Browse"
            /\ UNCHANGED <<searchVars, summaryVars, selectedStat, callVars>>]_vars

\* a whitespace-only query was submitted in Browse with a detail record open
C8_Witness ==
    /\ lastEvent.op = "search_ignored"
    /\ searchQuery = <<" ">>
    /\ ActiveView = "Browse"
    /\ selectedStat # Null

\* C9: a failed search shows AIError with the fixed message and no
\* results; clearing from AIError leads to Browse with an empty query and
\* no error.
C9_FailureThenClear ==
    /\ [](lastEvent.op = "search_failed"
            => /\ ActiveView = "AIError"
               /\ aiError = Some(SearchErrorMessage)
               /\ aiResults = <<>>)
    /\ [][(handleClearAiSearch /\ ActiveView = "AIError")
            => /\ ActiveView' = "Browse"
               /\ searchQuery' = <<>>
               /\ aiError' = Null]_vars

\* the search call has failed and the clear control is on the page
C9_Witness ==
    /\ lastEvent.op = "search_failed"
    /\ ActiveView = "AIError"
    /\ ClearSearchRendered
    /\ searchQuery # <<>>

\* C10 as stated: an open detail overlay closes only on an explicit close
\* or an Escape key press.
C10_ClosesOnlyOnCloseOrEscape ==
    [][(selectedStat # Null /\ selectedStat' = Null)
         => lastEvent'.op \in {"close_modal", "escape"}]_vars

\* C10 as amended: an open detail overlay closes only on an explicit close,
\* an Escape key press or an accepted search submission, and its record is
\* replaced only by the selection of another row; every other action and
\* every response leaves the selected record unchanged.
C10_DetailKept ==
    [][selectedStat # Null
         => /\ selectedStat' = Null
                => lastEvent'.op \in {"close_modal", "escape", "search_submitted"}
            /\ selectedStat' # selectedStat
                => lastEvent'.op \in {"close_modal", "escape", "search_submitted",
                                      "stat_select"}]_vars

\* the AI search was cleared while the detail overlay was open
C10_Witness ==
    /\ selectedStat # Null
    /\ lastEvent.op = "clear_search"

\* C11: opening the detail overlay and closing it leave the active view,
\* the dataset, the filter selections and term, the search query, aiResults,
\* aiError, isSearching and the summary state unchanged.
C11_DetailLeavesViewAlone ==
    [][lastEvent'.op \in {"stat_select", "close_modal", "escape"}
         => /\ ActiveView' = ActiveView
            /\ UNCHANGED <<allData, filterVars, searchVars, summaryVars>>]_vars

\* the overlay was closed over the AIResults view with a summary shown
C11_Witness ==
    /\ lastEvent.op = "close_modal"
    /\ selectedStat = Null
    /\ ActiveView = "AIResults"
    /\ TruthyText(summary)

\* C12: the view starts as Loading, is Browse right after a successful
\* load and DataError right after a failed one; in DataError nothing ever
\* happens again (the failed load stays the last event), the dataset is
\* empty and no call is pending; the load is pending only before the first
\* event, so it is invoked once.
C12_LoadingThenBrowseOrDataError ==
    /\ lastEvent.op = "mount" => (ActiveView = "Loading" /\ loadPending)
    /\ lastEvent.op = "load_ok" => (ActiveView = "Browse" /\ allData = remoteTable)
    /\ lastEvent.op = "load_failed" => ActiveView = "DataError"
    /\ ActiveView = "DataError"
         => /\ lastEvent.op = "load_failed"
            /\ allData = <<>>
            /\ searchCalls = <<>> /\ summaryCalls = <<>>
            /\ ~isSearching /\ ~isSummarizing
    /\ loadPending => lastEvent.op = "mount"

\* the load has failed over a store that holds rows
C12_Witness ==
    /\ ActiveView = "DataError"
    /\ dataError = Some(DataErrorMessage)
    /\ remoteTable # <<>>
    /\ ~loadPending

\* C13: while a search is pending aiResults is empty and aiError is null,
\* the pending call is the one of the latest submission, and no result of an
\* earlier (replaced or cleared) search is ever applied.
C13_PriorResultsDiscarded ==
    /\ isSearching
         => /\ aiResults = <<>>
            /\ aiError = Null
            /\ ~AiResultsRendered
            /\ Len(searchCalls) = 1
            /\ ~searchCalls[1].stale
            /\ lastEvent.op = "search_submitted" => searchCalls[1].query = searchQuery
    /\ lastEvent.op \in {"search_ok", "search_failed"} => ~lastEvent.stale

\* a new search is pending while the summary call over the results of an
\* earlier search is still in flight
C13_Witness ==
    /\ isSearching
    /\ lastEvent.op = "search_submitted"
    /\ aiResults = <<>>
    /\ Len(summaryCalls) = 1
    /\ summaryCalls[1].stale
    /\ summaryCalls[1].input # <<>>

\* term is a substring of field when letter case is disregarded
C14_SubstringIgnoringCase(term, field) ==
    \E off \in 0..Len(field) :
        /\ off + Len(term) <= Len(field)
        /\ \A k \in 1..Len(term) : ToLowerChar(field[off + k]) = ToLowerChar(term[k])

\* the inclusion rule of the filtered list for row r
C14_Included(r) ==
    /\ selectedTopics = <<>> \/ Topic(r) \in Range(selectedTopics)
    /\ selectedCompanies = <<>> \/ Company(r) \in Range(selectedCompanies)
    /\ selectedDates = <<>> \/ Date(r) \in Range(selectedDates)
    /\ \/ searchTerm = <<>>
       \/ \E field \in {Stat(r), ResourceName(r), Company(r), Topic(r), Technology(r)} :
              C14_SubstringIgnoringCase(searchTerm, field)

\* the positions of the dataset whose rows are included
C14_Kept == {i \in 1..Len(allData) : C14_Included(allData[i])}

\* C14: the filtered list holds exactly the rows of the dataset that pass
\* the facet and term rule, in the dataset's order; with all filters empty
\* it equals the dataset.
C14_FilteredListContract ==
    ~isDataLoading =>
        /\ Len(filteredData) = Cardinality(C14_Kept)
        /\ \A j \in 1..Len(filteredData) :
              \E i \in C14_Kept :
                  /\ Cardinality({k \in C14_Kept : k <= i}) = j
                  /\ filteredData[j] = allData[i]
        /\ (selectedTopics = <<>> /\ selectedCompanies = <<>> /\ selectedDates = <<>>
            /\ searchTerm = <<>>) => filteredData = allData

\* every facet and the term are active and cut the list down to some rows
C14_Witness ==
    /\ selectedTopics # <<>> /\ selectedCompanies # <<>> /\ selectedDates # <<>>
    /\ searchTerm = <<"p", "H">>
    /\ filteredData # <<>>
    /\ Len(filteredData) < Len(allData)
    /\ allData = <<6, 3, 4, 1>>

\* C15: a search over at most SearchCap rows sends all of them in their
\* order; a search over more sends exactly SearchCap distinct rows of the
\* dataset.
C15_SearchSendsCappedSample ==
    \A i \in 1..Len(searchCalls) :
        LET sent == searchCalls[i].sent
        IN  /\ Len(remoteTable) <= SearchCap => sent = remoteTable
            /\ Len(remoteTable) > SearchCap =>
                  /\ Len(sent) = SearchCap
                  /\ Cardinality(Range(sent)) = SearchCap
                  /\ Range(sent) \subseteq Range(remoteTable)

\* a pending search over the larger dataset left one of its rows out after
\* the rows were reordered
C15_Witness ==
    /\ Len(remoteTable) = SearchCap + 1
    /\ Len(searchCalls) = 1
    /\ Len(searchCalls[1].sent) = SearchCap
    /\ searchCalls[1].sent # SubSeq(remoteTable, 1, SearchCap)
    /\ Range(searchCalls[1].sent) # Range(remoteTable)

\* C16: a call of generateSummary sends the first SummaryCap of its rows, or
\* all of them when there are no more than that, in their order, and no row
\* sent carries a reason.
C16_SummarySendsFirstRows ==
    \A c \in 1..Len(summaryCalls) :
        LET input   == summaryCalls[c].input
            payload == summaryCalls[c].payload
        IN  /\ Len(payload) = Min(Len(input), SummaryCap)
            /\ \A i \in 1..Len(payload) :
                  /\ payload[i].rec = input[i].rec
                  /\ "reason" \notin DOMAIN payload[i]

\* a pending summary of one row more than is sent, every row with a reason
C16_Witness ==
    /\ Len(summaryCalls) = 1
    /\ Len(summaryCalls[1].input) = SummaryCap + 1
    /\ Len(summaryCalls[1].payload) = SummaryCap
    /\ \A i \in 1..(SummaryCap + 1) : summaryCalls[1].input[i].reason \in Reasons

\* C17: no pending summary is over an empty list or reaches the model for
\* one; generateSummary of an empty list returns the fixed text without
\* contacting the model; handleGenerateSummary called with aiResults empty
\* changes no state and starts no call.
C17_NoSummaryOfNothing ==
    /\ [](/\ \A c \in 1..Len(summaryCalls) :
                summaryCalls[c].input # <<>> /\ summaryCalls[c].contacts
          /\ \A resp \in SummaryResponses :
                GenerateSummary(<<>>, resp) =
                    [contacted |-> FALSE, result |-> Resolved(NoDataSummaryText)])
    /\ [][(aiResults = <<>> /\ lastEvent'.op \in {"summary_ignored", "summary_requested"})
            => UNCHANGED <<dataVars, searchVars, summaryVars, filterVars, selectedStat,
                           callVars>>]_vars

\* the handler was called with no results and returned at once
C17_Witness ==
    /\ lastEvent.op = "summary_ignored"
    /\ aiResults = <<>>
    /\ summaryCalls = <<>>
    /\ ~isSummarizing

\* C18: for every answer the model may give to a pending search,
\* findRelevantStats returns an empty array when the response is empty or
\* blank or parses to something that is not an array, fails with the fixed
\* message exactly when the transport fails or parsing throws, and returns
\* the parsed array otherwise.
C18_SearchClientContract ==
    \A i \in 1..Len(searchCalls) : \A resp \in SearchResponses(searchCalls[i].sent) :
        LET res         == FindRelevantStatsResult(resp)
            blank       == ~resp.hasText \/ Trim(resp.text) = <<>>
            parseThrows == resp.ok /\ ~blank /\ resp.parsed.kind = "throws"
        IN  /\ ~res.ok <=> (~resp.ok \/ parseThrows)
            /\ ~res.ok => res.message = SearchErrorMessage
            /\ (resp.ok /\ blank) => res = Resolved(<<>>)
            /\ (resp.ok /\ ~blank /\ resp.parsed.kind = "object") => res = Resolved(<<>>)
            /\ (resp.ok /\ ~blank /\ resp.parsed.kind = "array") =>
                   res = Resolved(resp.parsed.items)

\* C19: a failed load, a failed search and a failed summary each end in
\* their own error state (dataError, aiError, summaryError) and leave the
\* state of the other two operations as it was.
C19_FailuresBecomeErrorStates ==
    [][/\ lastEvent'.op = "load_failed" =>
             /\ TruthyMsg(dataError') /\ ~isDataLoading'
             /\ UNCHANGED <<searchVars, summaryVars>>
       /\ lastEvent'.op = "search_failed" =>
             /\ TruthyMsg(aiError') /\ ~isSearching'
             /\ UNCHANGED <<allData, isDataLoading, dataError, summaryVars>>
       /\ lastEvent'.op = "summary_failed" =>
             /\ TruthyMsg(summaryError') /\ ~isSummarizing'
             /\ UNCHANGED <<allData, isDataLoading, dataError, searchVars>>]_vars

\* a search has failed while a summary call was pending
C19_Witness ==
    /\ lastEvent.op = "search_failed"
    /\ aiError = Some(SearchErrorMessage)
    /\ isSummarizing /\ Len(summaryCalls) = 1
    /\ dataError = Null

\* C20: a summary request leaves the summary in Summarizing with a call over
\* the current results pending; the call's success leaves it in SummaryReady
\* and its failure in SummaryError; a dismissal leaves it in NoSummary, with
\* the generate button back on the page while there are results.
C20_SummaryLifecycle ==
    /\ lastEvent.op = "summary_requested" =>
          /\ isSummarizing /\ summary = Null /\ summaryError = Null
          /\ Len(summaryCalls) = 1
          /\ summaryCalls[1].input = aiResults /\ ~summaryCalls[1].stale
    /\ lastEvent.op = "summary_ok" =>
          ~isSummarizing /\ summary # Null /\ summaryError = Null
    /\ lastEvent.op = "summary_failed" =>
          ~isSummarizing /\ summary = Null /\ summaryError = Some(SummaryErrorMessage)
    /\ lastEvent.op = "dismiss_summary" =>
          /\ ~isSummarizing /\ summary = Null /\ summaryError = Null
          /\ aiResults # <<>> => SummaryButtonRendered

\* a summary or its error was dismissed and the results are still there
C20_Witness ==
    /\ lastEvent.op = "dismiss_summary"
    /\ aiResults # <<>>
    /\ SummaryButtonRendered
    /\ summaryCalls = <<>>

\* a facet list has no duplicates and no empty value
C21_CleanList(list) ==
    /\ \A i \in 1..Len(list) : list[i] # <<>>
    /\ \A i \in 1..Len(list) : \A j \in 1..Len(list) : list[i] = list[j] => i = j

\* C21: each facet holds, without duplicates, exactly the non-empty values of
\* its column of the dataset; each facet value taken as the only filter
\* leaves some row; an empty dataset has empty facets and an empty filtered
\* list.
C21_FacetsOfDataset ==
    ~isDataLoading =>
        /\ C21_CleanList(filterOptions.topics)
        /\ C21_CleanList(filterOptions.companies)
        /\ C21_CleanList(filterOptions.dates)
        /\ Range(filterOptions.topics) = {Topic(r) : r \in Range(allData)} \ {<<>>}
        /\ Range(filterOptions.companies) = {Company(r) : r \in Range(allData)} \ {<<>>}
        /\ Range(filterOptions.dates) = {Date(r) : r \in Range(allData)} \ {<<>>}
        /\ \A v \in Range(filterOptions.topics) :
              ApplyFilters(allData, <<v>>, <<>>, <<>>, <<>>) # <<>>
        /\ \A v \in Range(filterOptions.companies) :
              ApplyFilters(allData, <<>>, <<v>>, <<>>, <<>>) # <<>>
        /\ \A v \in Range(filterOptions.dates) :
              ApplyFilters(allData, <<>>, <<>>, <<v>>, <<>>) # <<>>
        /\ (Len(selectedTopics) + Len(selectedCompanies) + Len(selectedDates) = 1
            /\ searchTerm = <<>>) => filteredData # <<>>
        /\ allData = <<>> =>
              /\ filterOptions = [topics |-> <<>>, companies |-> <<>>, dates |-> <<>>]
              /\ filteredData = <<>>

\* one topic that two rows of the dataset share is the only filter, and it
\* leaves those rows
C21_Witness ==
    /\ allData = <<6, 3, 4, 1>>
    /\ filterOptions.topics = << <<"P", "h">>, <<"R">> >>
    /\ filterOptions.dates = << <<"2">>, <<"1">> >>
    /\ selectedTopics = << <<"R">> >>
    /\ selectedCompanies = <<>> /\ selectedDates = <<>> /\ searchTerm = <<>>
    /\ filteredData = <<6, 3>>

\* C22: an accepted search submission starts exactly one search call and an
\* accepted summary request exactly one summary call; no other step starts
\* a call; after a failed search no call is pending; a submission from the
\* AIError view with a non-blank query is accepted, leads to AISearching and
\* clears the error.
C22_OneCallPerSubmission ==
    [][/\ lastEvent'.op = "search_submitted" =>
             /\ Len(searchCalls') = Len(searchCalls) + 1
             /\ Len(summaryCalls') = Len(summaryCalls)
             /\ ActiveView' = "AISearching" /\ aiError' = Null
       /\ lastEvent'.op = "summary_requested" =>
             /\ Len(summaryCalls') = Len(summaryCalls) + 1
             /\ isSummarizing'
             /\ UNCHANGED searchCalls
       /\ lastEvent'.op # "search_submitted" => Len(searchCalls') <= Len(searchCalls)
       /\ lastEvent'.op # "summary_requested" => Len(summaryCalls') <= Len(summaryCalls)
       /\ lastEvent'.op = "search_failed" => (searchCalls' = <<>> /\ ~isSearching')
       /\ (ActiveView = "AIError" /\ lastEvent'.op = "search_ignored") =>
             Trim(searchQuery) = <<>>
       /\ (ActiveView = "AIError" /\ lastEvent'.op = "search_submitted") =>
             Trim(searchQuery) # <<>>]_vars

\* a search failed; no call is pending and the query in the box would be
\* accepted if it were submitted again
C22_Witness ==
    /\ lastEvent.op = "search_failed"
    /\ ActiveView = "AIError"
    /\ searchCalls = <<>> /\ summaryCalls = <<>>
    /\ Trim(searchQuery) # <<>>
    /\ ~SearchRejected

\* C23: a summary that is held was produced by the generateSummary call
\* over the result list that aiResults holds now.
C23_SummaryOfCurrentResults ==
    summary # Null => summarySource = Some(aiResults)

\* C24: when every issued call settles, a load, a search and a summary that
\* is in progress stops being in progress, whether its call succeeds or
\* fails.
C24_LoadingEnds ==
    /\ isDataLoading ~> ~isDataLoading
    /\ isSearching ~> ~isSearching
    /\ isSummarizing ~> ~isSummarizing

\* a summary call that outlived the search it was made for has failed, and
\* nothing is in progress any more
C24_Witness ==
    /\ lastEvent = [op |-> "summary_failed", stale |-> TRUE]
    /\ ~isDataLoading /\ ~isSearching /\ ~isSummarizing
    /\ searchCalls = <<>> /\ summaryCalls = <<>>

\* C25: a facet toggle and an edit of the filter term leave the search and
\* summary state as they were; an AI search submission, its response and
\* the clearing of the AI search leave the facet selections and the filter
\* term as they were.
C25_FiltersAndSearchIndependent ==
    [][/\ lastEvent'.op \in {"toggle_topic", "toggle_company", "toggle_date", "set_term"} =>
             UNCHANGED <<searchQuery, aiResults, aiError, isSearching,
                         summary, isSummarizing, summaryError>>
       /\ lastEvent'.op \in {"search_submitted", "search_ignored", "search_ok",
                             "search_failed", "clear_search"} =>
             UNCHANGED <<selectedTopics, selectedCompanies, selectedDates, searchTerm>>]_vars

\* a topic was selected while the results of a search and their summary are
\* shown
C25_Witness ==
    /\ lastEvent.op = "toggle_topic"
    /\ selectedTopics # <<>>
    /\ ActiveView = "AIResults"
    /\ TruthyText(summary)
    /\ searchQuery # <<>>

\* C26: the reset-filters action empties the facet selections and the
\* filter term, the filtered list then being the whole dataset, and leaves
\* the search state, the summary state and the open detail record as they
\* were.
C26_ResetTouchesFiltersOnly ==
    [][lastEvent'.op = "reset_filters" =>
          /\ selectedTopics' = <<>> /\ selectedCompanies' = <<>> /\ selectedDates' = <<>>
          /\ searchTerm' = <<>>
          /\ filteredData' = allData'
          /\ UNCHANGED <<searchQuery, aiResults, aiError, isSearching,
                         summary, isSummarizing, summaryError, selectedStat>>]_vars

============================================================================
